---- MODULE Spec2Model ----
(***************************************************************************)
(* A model of the whop-scraper repository: the fetchers (get_page of       *)
(* scrape_new.py and explore.py), the extraction of a record from a page   *)
(* (scrape_community_page), the batch run of scrape_new.py with its        *)
(* durable batch file, the merge of merge_batches.py and the scoring pass  *)
(* of rank.py.                                                             *)
(*                                                                         *)
(* Numbers.  The code computes in Python floats; the model computes the    *)
(* same expressions exactly, in scaled integers:                           *)
(*   average_rating     tenths       (49 is 4.9)                           *)
(*   price_monthly_usd  whole dollars                                      *)
(*   engagement_score   hundredths   (round(x, 2) keeps two decimals)      *)
(*   multipliers        tenths       (12 is 1.2)                           *)
(*   category ratios    thousandths  (30 is 0.03)                          *)
(***************************************************************************)
EXTENDS Integers, Sequences, FiniteSets, TLC

VARIABLES
    \* ---- get_page (scrape_new.py, explore.py)
    fetcher,            \* which get_page is running: "scrape_new" or "explore"
    retries,            \* its retries argument
    attempt,            \* the loop variable: number of attempts completed
    responses,          \* the remote's answers so far, one per request issued
    waits,              \* waits[i]: seconds slept after request i (0: none)
    fetchResult,        \* "pending", "text" (the document) or "None"
    \* ---- estimate_community_size / calculate_engagement_score as functions
    probe,              \* the community record the functions are applied to
    probeOut,           \* their results
    \* ---- files under output/
    batchFiles,         \* raw_communities_batch_<n>.json, by batch number
    rawFile,            \* raw_communities.json
    rankedFile,         \* all_communities_ranked.json
    csvFile,            \* ranked_communities.csv (the rows, header left out)
    \* ---- merge_batches.py
    mergeSummary,       \* merge_summary.json
    \* ---- rank.py
    rankExit,           \* how the last main() of rank.py ended
    rankRuns,           \* runs of main() of rank.py so far
    \* ---- a batch run of scrape_new.py
    runPc,              \* "stopped", "running", "flushing", "final_flush", "done"
    batch_number,
    urlIdx,             \* sitemap URLs of the batch processed so far
    all_communities,
    communities_batch,
    runs,               \* runs started so far
    fileAtStart,        \* history: the records in the batch file when the run started
    stateAtStart,       \* history: the state of the batch file when the run started
    lastFlushed,        \* history: by batch number, the records of the last completed write
    failed_urls,        \* history: the URLs get_page returned None for in this run
    extracted,          \* history: the records scrape_community_page returned in this run
    fetch_log,          \* history: the fetches and politeness delays of this run, in order
    write_failed,       \* history: a write of the batch file raised in this run
    completion_log      \* the line logged when the run returns (line 463)

fetchVars == <<fetcher, retries, attempt, responses, waits, fetchResult>>
probeVars == <<probe, probeOut>>
fileVars  == <<batchFiles, rawFile, rankedFile, csvFile>>
mergeVars == <<mergeSummary>>
rankVars  == <<rankExit, rankRuns>>
runVars   == <<runPc, batch_number, urlIdx, all_communities, communities_batch,
               runs, fileAtStart, stateAtStart, lastFlushed, failed_urls, extracted,
               fetch_log, write_failed, completion_log>>
vars == <<fetchVars, probeVars, fileVars, mergeVars, rankVars, runVars>>

(***************************************************************************)
(* Helpers on sequences and numbers.                                       *)
(***************************************************************************)
Max(a, b) == IF a >= b THEN a ELSE b
Min(a, b) == IF a <= b THEN a ELSE b

Range(s) == {s[i] : i \in 1..Len(s)}

IsPrefix(s, t) == Len(s) <= Len(t) /\ SubSeq(t, 1, Len(s)) = s

\* All sequences over S of length at most n.
SeqsUpTo(S, n) == UNION {[1..k -> S] : k \in 0..n}

\* The urls of a list of records, in order.
Urls(recs) == [i \in 1..Len(recs) |-> recs[i].url]

NoDupUrls(recs) == \A i, j \in 1..Len(recs) : recs[i].url = recs[j].url => i = j

(***************************************************************************)
(* rank.py: the size estimate, the score and the confidence.               *)
(***************************************************************************)
TOP_N == 70
MEMBERS_CAP == 500000

\* category_ratios, in thousandths; .get(category, 0.025) for any other key.
CategoryRatio(category) ==
    CASE category = "Trading"     -> 30
      [] category = "E-commerce"  -> 25
      [] category = "Real Estate" -> 20
      [] category = "Finance"     -> 30
      [] category = "Crypto"      -> 35
      [] category = "Education"   -> 20
      [] category = "Other"       -> 25
      [] OTHER                    -> 25

\* price_multiplier, in tenths.
PriceMultiplier(price) ==
    IF price = 0 THEN 12
    ELSE IF price < 50 THEN 10
    ELSE IF price < 100 THEN 11
    ELSE IF price < 250 THEN 12
    ELSE 13

\* rating_multiplier, in tenths; rating in tenths.
RatingMultiplier(rating) ==
    IF rating >= 48 THEN 12
    ELSE IF rating >= 45 THEN 11
    ELSE IF rating >= 40 THEN 10
    ELSE 9

\* int(base_estimate * price_multiplier * rating_multiplier): with reviews > 0
\* base_estimate is reviews / ratio, otherwise 100 (priced) or 50 (free).
RawEstimate(c) ==
    LET pm == PriceMultiplier(c.price_monthly_usd)
        rm == RatingMultiplier(c.average_rating)
    IN  IF c.reviews_count > 0
        THEN (c.reviews_count * 10 * pm * rm) \div CategoryRatio(c.category)
        ELSE ((IF c.price_monthly_usd > 0 THEN 100 ELSE 50) * pm * rm) \div 100

\* A bug one could make in line 80: a zero dropped from the cap.
estimate_cap_50000(c) ==
    Min(Max(RawEstimate(c), c.reviews_count * 10), 50000)

\* estimate_community_size(community): the raw estimate, raised to ten members
\* per review (line 77), then capped (line 80).
estimate_community_size(c) ==
    Min(Max(RawEstimate(c), c.reviews_count * 10), MEMBERS_CAP)

\* round(x, 2) of x = whole + num/den hundredths: to the nearest hundredth, a tie
\* going to the even one.
RoundHundredths(whole, num, den) ==
    LET q   == whole + (num \div den)
        rem == num % den
    IN  IF 2 * rem > den THEN q + 1
        ELSE IF 2 * rem < den THEN q
        ELSE IF q % 2 = 0 THEN q ELSE q + 1

\* A bug one could make in line 108: the revenue term subtracted from the sum.
score_revenue_subtracted(c) ==
    LET m    == c.estimated_members
        M    == Max(m, 1)
        revQ == (3 * m * c.price_monthly_usd) \div 20
        revR == (3 * m * c.price_monthly_usd) % 20
        denQ == (10000 * c.reviews_count) \div M
        denR == (10000 * c.reviews_count) % M
    IN  RoundHundredths(60 * m + 40 * c.reviews_count * c.average_rating
                            - revQ - 1 + 100 * denQ,
                        2000 * denR + (20 - revR) * M, 20 * M)

\* calculate_engagement_score(community). Its four terms, in hundredths:
\*   size_score        m * 0.6                  = 60 m
\*   review_score      reviews*(rating/5)*20    = 40 * reviews * rating (tenths)
\*   revenue_indicator (m*price/100)*0.15       = 3 m price / 20
\*   review_density    reviews/max(m,1)*10000   = 1000000 reviews / max(m,1)
\* The last two are kept as quotient and remainder so that the sum is rounded
\* once, as round(total_score, 2) does.
calculate_engagement_score(c) ==
    LET m    == c.estimated_members
        M    == Max(m, 1)
        revQ == (3 * m * c.price_monthly_usd) \div 20
        revR == (3 * m * c.price_monthly_usd) % 20
        denQ == (10000 * c.reviews_count) \div M
        denR == (10000 * c.reviews_count) % M
    IN  RoundHundredths(60 * m + 40 * c.reviews_count * c.average_rating
                            + revQ + 100 * denQ,
                        2000 * denR + revR * M, 20 * M)

\* assign_confidence(community); rating in tenths.
assign_confidence(c) ==
    IF c.reviews_count >= 100 /\ c.average_rating >= 40 THEN "High"
    ELSE IF c.reviews_count >= 25 THEN "Medium"
    ELSE "Low"

\* community[key] = value on a dict: the key is added or overwritten.
SetKey(c, key, value) == (key :> value) @@ c

\* The body of the loop of lines 149-157 for one community.
ScoreOne(c) ==
    LET c1 == SetKey(c, "estimated_members", estimate_community_size(c))
        c2 == SetKey(c1, "confidence", assign_confidence(c1))
    IN  SetKey(c2, "engagement_score", calculate_engagement_score(c2))

ScoreAll(communities) == [i \in 1..Len(communities) |-> ScoreOne(communities[i])]

\* x put into a list sorted by descending score, behind every element whose score
\* is at least its own.
RECURSIVE InsertBehindEquals(_, _)
InsertBehindEquals(sorted, x) ==
    IF sorted = <<>> THEN <<x>>
    ELSE IF Head(sorted).engagement_score >= x.engagement_score
         THEN <<Head(sorted)>> \o InsertBehindEquals(Tail(sorted), x)
         ELSE <<x>> \o sorted

\* x put in front of every element whose score is at most its own.
RECURSIVE InsertBeforeEquals(_, _)
InsertBeforeEquals(sorted, x) ==
    IF sorted = <<>> THEN <<x>>
    ELSE IF Head(sorted).engagement_score > x.engagement_score
         THEN <<Head(sorted)>> \o InsertBeforeEquals(Tail(sorted), x)
         ELSE <<x>> \o sorted

\* A bug one could make in line 161: sorting ascending and reversing the list,
\* which orders by descending score but turns equal scores around.
RECURSIVE sort_then_reverse(_)
sort_then_reverse(communities) ==
    IF communities = <<>> THEN <<>>
    ELSE InsertBeforeEquals(
             sort_then_reverse(SubSeq(communities, 1, Len(communities) - 1)),
             communities[Len(communities)])

\* communities.sort(key=engagement_score, reverse=True): list.sort is stable, and
\* with reverse=True it still keeps equal keys in their original order.
RECURSIVE SortByScoreDesc(_)
SortByScoreDesc(communities) ==
    IF communities = <<>> THEN <<>>
    ELSE InsertBehindEquals(
             SortByScoreDesc(SubSeq(communities, 1, Len(communities) - 1)),
             communities[Len(communities)])

\* for i, community in enumerate(communities, 1): community["rank"] = i
AssignRanks(communities) ==
    [i \in 1..Len(communities) |-> SetKey(communities[i], "rank", i)]

\* Steps 1 to 3 of main(): the scoring pass.
ScoringPass(communities) == AssignRanks(SortByScoreDesc(ScoreAll(communities)))

(***************************************************************************)
(* Files.  A file is absent, holds a JSON list of records ("ok"), or holds *)
(* text json.load rejects ("partial": opened for writing and not yet       *)
(* written to the end; "corrupt": anything else that is no JSON list).     *)
(***************************************************************************)
AbsentFile == [st |-> "absent", recs |-> <<>>]
OkFile(recs) == [st |-> "ok", recs |-> recs]
PartialFile == [st |-> "partial", recs |-> <<>>]
CorruptFile == [st |-> "corrupt", recs |-> <<>>]

\* The batch numbers for which a run or a batch file exists.
BatchNumbers == {2, 10}

(***************************************************************************)
(* merge_batches.py: merge_batch_files().                                  *)
(***************************************************************************)
\* The decimal digits of n: the part of raw_communities_batch_<n>.json that
\* differs from file to file.
RECURSIVE Digits(_)
Digits(n) == IF n < 10 THEN <<n>> ELSE Digits(n \div 10) \o <<n % 10>>

\* File name order: digit by digit, and the shorter number first when one is the
\* start of the other ("." sorts before every digit).
RECURSIVE DigitsBefore(_, _)
DigitsBefore(a, b) ==
    IF a = <<>> THEN b # <<>>
    ELSE IF b = <<>> THEN FALSE
    ELSE IF Head(a) # Head(b) THEN Head(a) < Head(b)
    ELSE DigitsBefore(Tail(a), Tail(b))

\* A bug one could make in line 28: batch_files.sort() with no key, which
\* orders the file names as strings.
RECURSIVE sort_by_file_name(_)
sort_by_file_name(numbers) ==
    IF numbers = {} THEN <<>>
    ELSE LET first == CHOOSE n \in numbers :
                          \A k \in numbers \ {n} : DigitsBefore(Digits(n), Digits(k))
         IN  <<first>> \o sort_by_file_name(numbers \ {first})

\* batch_files.sort(key=lambda x: int(...)): ascending batch number.
RECURSIVE SortByBatchNumber(_)
SortByBatchNumber(numbers) ==
    IF numbers = {} THEN <<>>
    ELSE LET first == CHOOSE n \in numbers : \A k \in numbers : n <= k
         IN  <<first>> \o SortByBatchNumber(numbers \ {first})

\* What one pass of the loop of lines 38-53 adds: the list in the file, and
\* nothing for a file that does not load or holds no list.
ListIn(file) == IF file.st = "ok" THEN file.recs ELSE <<>>

\* all_communities after the loop over the sorted batch files.
RECURSIVE CollectBatches(_, _)
CollectBatches(order, files) ==
    IF order = <<>> THEN <<>>
    ELSE ListIn(files[Head(order)]) \o CollectBatches(Tail(order), files)

\* A bug one could make in lines 66-67: the url is never added to seen_urls, so
\* nothing is recognised as a duplicate.
RECURSIVE unique_without_seen(_, _)
unique_without_seen(communities, seen_urls) ==
    IF communities = <<>> THEN <<>>
    ELSE IF Head(communities).url # ""
         THEN <<Head(communities)>> \o unique_without_seen(Tail(communities), seen_urls)
         ELSE unique_without_seen(Tail(communities), seen_urls)

\* Lines 61-68: a community is kept when its url is non-empty and not seen yet.
RECURSIVE UniqueCommunities(_, _)
UniqueCommunities(communities, seen_urls) ==
    IF communities = <<>> THEN <<>>
    ELSE LET url == Head(communities).url
         IN  IF url # "" /\ url \notin seen_urls
             THEN <<Head(communities)>>
                  \o UniqueCommunities(Tail(communities), seen_urls \cup {url})
             ELSE UniqueCommunities(Tail(communities), seen_urls)

\* merge_batch_files(): nothing is written when no batch file exists (line 22)
\* or when no community was collected (line 139).  The script is run while no
\* batch run is in progress ("run the merge script after all batches complete",
\* scrape_new.py line 501); a killed run may have left its file half written.
MergeBatchFiles ==
    LET batch_files == {n \in BatchNumbers : batchFiles[n].st # "absent"}
        all == CollectBatches(SortByBatchNumber(batch_files), batchFiles)
        unique_communities == UniqueCommunities(all, {})
    IN  /\ runPc \in {"stopped", "done"}
        /\ IF batch_files # {} /\ all # <<>>
           THEN /\ rawFile' = OkFile(unique_communities)
                /\ mergeSummary' =
                      [written |-> TRUE,
                       total_batch_files_processed |-> Cardinality(batch_files),
                       total_communities_found |-> Len(all),
                       unique_communities |-> Len(unique_communities),
                       duplicates_removed |-> Len(all) - Len(unique_communities)]
           ELSE UNCHANGED <<rawFile, mergeSummary>>
        /\ UNCHANGED <<batchFiles, rankedFile, csvFile, fetchVars, probeVars,
                       rankVars, runVars>>

(***************************************************************************)
(* The parts of the state a specification does not use stay as they are    *)
(* here.                                                                   *)
(***************************************************************************)
NoProbe == [kind |-> "none"]
NoOut == [applied |-> "none"]
NoLog == [logged |-> FALSE]

FetchOff ==
    /\ fetcher = "none" /\ retries = 0 /\ attempt = 0
    /\ responses = <<>> /\ waits = <<>> /\ fetchResult = "pending"

ProbeOff == probe = NoProbe /\ probeOut = NoOut

FilesOff ==
    /\ batchFiles = [n \in BatchNumbers |-> AbsentFile]
    /\ rawFile = AbsentFile /\ rankedFile = AbsentFile /\ csvFile = AbsentFile

MergeOff == mergeSummary = [written |-> FALSE]

RankOff == rankExit = "not run" /\ rankRuns = 0

RunOff ==
    /\ runPc = "stopped" /\ batch_number = 0 /\ urlIdx = 0
    /\ all_communities = <<>> /\ communities_batch = <<>>
    /\ runs = 0 /\ fileAtStart = <<>> /\ stateAtStart = "absent"
    /\ lastFlushed = [n \in BatchNumbers |-> <<>>]
    /\ failed_urls = <<>> /\ extracted = <<>> /\ fetch_log = <<>>
    /\ write_failed = FALSE /\ completion_log = NoLog

(***************************************************************************)
(* SpecScore: estimate_community_size and calculate_engagement_score       *)
(* applied to inputs drawn from bounded sets.  The sets hold the branch    *)
(* boundaries of both functions; on them the exact value computed here and *)
(* the float value Python computes agree (no quotient falls a rounding     *)
(* error below an integer, no sum ends in exactly half a hundredth).       *)
(***************************************************************************)
MaxReviews == 60000

EstimateReviews == {0, 1, 100, 1000, 50000, 50001, MaxReviews}
ProbePrices == {0, 20, 60, 100, 260, 500}
ProbeRatings == {0, 39, 40, 45, 48, 50}
ProbeCategories == {"Trading", "Real Estate", "Crypto", "Other", "Unlisted"}
ScoreReviews == {0, 1, 100, 1000}
ProbeMembers == {0, 1, 2, 100, 3000, MEMBERS_CAP}

Community(reviews, rating, price, category, members) ==
    [reviews_count |-> reviews, average_rating |-> rating,
     price_monthly_usd |-> price, category |-> category,
     estimated_members |-> members]

EstimateProbes ==
    {[kind |-> "estimate", c |-> Community(r, rt, p, cat, 0), other_members |-> 0] :
        r \in EstimateReviews, rt \in ProbeRatings, p \in ProbePrices,
        cat \in ProbeCategories}

\* Two records that differ only in estimated_members: c, and c with other_members.
ScoreProbes ==
    {[kind |-> "score", c |-> Community(r, rt, p, "Other", m), other_members |-> m2] :
        r \in ScoreReviews, rt \in {0, 40, 50}, p \in {0, 20, 500},
        m \in ProbeMembers, m2 \in ProbeMembers}

InitScore ==
    /\ probe \in EstimateProbes \cup ScoreProbes
    /\ probeOut = NoOut
    /\ FetchOff /\ FilesOff /\ MergeOff /\ RankOff /\ RunOff

ApplyEstimate ==
    /\ probe.kind = "estimate" /\ probeOut.applied = "none"
    /\ probeOut' = [applied |-> "estimate",
                    estimated_members |-> estimate_community_size(probe.c)]
    /\ UNCHANGED <<probe, fetchVars, fileVars, mergeVars, rankVars, runVars>>

ApplyScore ==
    /\ probe.kind = "score" /\ probeOut.applied = "none"
    /\ probeOut' = [applied |-> "score",
                    engagement_score |-> calculate_engagement_score(probe.c),
                    other_score |-> calculate_engagement_score(
                        [probe.c EXCEPT !.estimated_members = probe.other_members])]
    /\ UNCHANGED <<probe, fetchVars, fileVars, mergeVars, rankVars, runVars>>

NextScore == ApplyEstimate \/ ApplyScore

SpecScore == InitScore /\ [][NextScore]_vars

\* C2 (as stated): for reviews_count >= 0 and any price, rating and category,
\* estimate_community_size returns at least reviews_count * 10.
C2_FloorAlways ==
    probeOut.applied = "estimate"
        => probeOut.estimated_members >= probe.c.reviews_count * 10

\* C2 (amended): the result is at least reviews_count * 10 as long as that is
\* within the cap of 500000 (reviews_count <= 50000); beyond it the cap, applied
\* after the floor, wins and the result is exactly 500000.
C2_FloorUpToCap ==
    probeOut.applied = "estimate" =>
        /\ probeOut.estimated_members <= MEMBERS_CAP
        /\ probe.c.reviews_count * 10 <= MEMBERS_CAP
              => probeOut.estimated_members >= probe.c.reviews_count * 10
        /\ probe.c.reviews_count * 10 > MEMBERS_CAP
              => probeOut.estimated_members = MEMBERS_CAP

\* C2 witness: an estimate for a reviewed community that lies between the floor
\* and the cap.
C2_Witness ==
    /\ probeOut.applied = "estimate"
    /\ probe.c.reviews_count > 0
    /\ probeOut.estimated_members >= probe.c.reviews_count * 10
    /\ probeOut.estimated_members < MEMBERS_CAP

\* C3 (as stated): of two records that differ only in estimated_members, the one
\* with more members never has the smaller engagement score.
C3_MonotoneInMembers ==
    (probeOut.applied = "score" /\ probe.c.estimated_members <= probe.other_members)
        => probeOut.engagement_score <= probeOut.other_score

\* C3 (amended): that holds when reviews_count = 0, where the review density term
\* reviews / max(members, 1) * 10000, which falls as members grow, vanishes.
C3_MonotoneWithoutReviews ==
    (/\ probeOut.applied = "score"
     /\ probe.c.reviews_count = 0
     /\ probe.c.estimated_members <= probe.other_members)
        => probeOut.engagement_score <= probeOut.other_score

\* C3 witness: two unreviewed records, the second with more members and a
\* strictly larger score.
C3_Witness ==
    /\ probeOut.applied = "score"
    /\ probe.c.reviews_count = 0
    /\ probe.c.estimated_members < probe.other_members
    /\ probeOut.engagement_score < probeOut.other_score

(***************************************************************************)
(* rank.py main().                                                         *)
(***************************************************************************)
MaxRankRuns == 2

\* main(): returns at once without the input file (lines 136-139); json.load
\* raises on a file that is no JSON; otherwise the scoring pass, the first TOP_N
\* rows to the CSV, the full list to all_communities_ranked.json, and then the
\* statistics, whose average divides by len(top_communities) (line 224).  Like
\* the merge, it is run while no batch run is in progress.
RankMain ==
    /\ runPc \in {"stopped", "done"}
    /\ rankRuns < MaxRankRuns
    /\ rankRuns' = rankRuns + 1
    /\ IF rawFile.st = "absent"
       THEN /\ rankExit' = "no input"
            /\ UNCHANGED <<rankedFile, csvFile>>
       ELSE IF rawFile.st # "ok"
       THEN /\ rankExit' = "JSONDecodeError"
            /\ UNCHANGED <<rankedFile, csvFile>>
       ELSE LET communities == ScoringPass(rawFile.recs)
                top_communities ==
                    SubSeq(communities, 1, Min(TOP_N, Len(communities)))
            IN  /\ csvFile' = OkFile(top_communities)
                /\ rankedFile' = OkFile(communities)
                /\ rankExit' = IF Len(top_communities) = 0
                               THEN "ZeroDivisionError" ELSE "ok"
    /\ UNCHANGED <<batchFiles, rawFile, fetchVars, probeVars, mergeVars, runVars>>

\* The scoring pass is re-run on a collection that has been through it: the
\* ranked collection is put in the place main() reads.
ReuseRanked ==
    /\ rankRuns = 1
    /\ rankedFile.st = "ok"
    /\ rawFile' = rankedFile
    /\ UNCHANGED <<batchFiles, rankedFile, csvFile, fetchVars, probeVars,
                   mergeVars, rankVars, runVars>>

(***************************************************************************)
(* SpecRank: main() of rank.py over persisted collections drawn from a     *)
(* bounded pool.  Records with the same profile under different urls give  *)
(* equal scores.                                                           *)
(***************************************************************************)
MaxRankLen == 3

RawRecord(url, reviews, rating, price, category) ==
    [url |-> url, reviews_count |-> reviews, average_rating |-> rating,
     price_monthly_usd |-> price, category |-> category]

RankPool ==
    {RawRecord(u, 100, 49, 20, "Trading") : u \in {"u1", "u2"}}
    \cup {RawRecord(u, 0, 0, 0, "Other") : u \in {"u1", "u2"}}
    \cup {RawRecord(u, 1000, 40, 100, "Crypto") : u \in {"u1", "u3"}}

InitRank ==
    /\ rawFile \in {AbsentFile} \cup {OkFile(recs) : recs \in SeqsUpTo(RankPool, MaxRankLen)}
    /\ batchFiles = [n \in BatchNumbers |-> AbsentFile]
    /\ rankedFile = AbsentFile /\ csvFile = AbsentFile
    /\ FetchOff /\ ProbeOff /\ MergeOff /\ RankOff /\ RunOff

NextRank == RankMain \/ ReuseRanked

SpecRank == InitRank /\ [][NextRank]_vars

\* A record without its rank.
WithoutRank(c) == [k \in (DOMAIN c) \ {"rank"} |-> c[k]]

WithScore(recs, score) == SelectSeq(recs, LAMBDA c : c["engagement_score"] = score)

\* C1: after the scoring pass over N records the ranks are exactly 1..N, each
\* once; a record with a higher score never has the larger rank; and records
\* with equal scores are in the order they had before the sort.
C1_RanksDenseOrderedStable ==
    (rawFile.st = "ok" /\ rankedFile.st = "ok") =>
        LET before == ScoreAll(rawFile.recs)
            after  == rankedFile.recs
            N      == Len(before)
        IN  /\ Len(after) = N
            /\ {after[i]["rank"] : i \in 1..N} = 1..N
            /\ \A i, j \in 1..N :
                  /\ (i # j => after[i]["rank"] # after[j]["rank"])
                  /\ (after[i]["engagement_score"] > after[j]["engagement_score"]
                          => after[i]["rank"] < after[j]["rank"])
                  /\ (i < j => after[i]["rank"] < after[j]["rank"])
            /\ \A k \in 1..N :
                  LET score == before[k]["engagement_score"]
                  IN  WithScore([i \in 1..N |-> WithoutRank(before[i])], score)
                        = WithScore([i \in 1..N |-> WithoutRank(after[i])], score)

\* C1 witness: a ranked collection of three records in which two records tie and
\* a third, placed before them in the input, scores lower.
C1_Witness ==
    /\ rankExit = "ok" /\ rankRuns = 1
    /\ Len(rankedFile.recs) = 3
    /\ rankedFile.recs[1]["engagement_score"] = rankedFile.recs[2]["engagement_score"]
    /\ rankedFile.recs[1].url # rankedFile.recs[2].url
    /\ rankedFile.recs[3]["engagement_score"] < rankedFile.recs[2]["engagement_score"]
    /\ rawFile.recs[1].url = rankedFile.recs[3].url

\* C6: the scoring pass applied to a collection that has been through it changes
\* nothing: estimated_members, confidence, engagement_score, rank and the order of
\* the records all stay, so the files written are the ones already there.
C6_PassIdempotent ==
    [][(rawFile.st = "ok" /\ rawFile = rankedFile)
          => (rankedFile' = rankedFile /\ csvFile' = csvFile)]_vars

\* C6 witness: the pass has run a second time, over its own output, which holds
\* tied records.
C6_Witness ==
    /\ rankRuns = 2 /\ rankExit = "ok"
    /\ rawFile = rankedFile
    /\ Len(rankedFile.recs) = 3
    /\ rankedFile.recs[1]["engagement_score"] = rankedFile.recs[2]["engagement_score"]
    /\ rankedFile.recs[1].url # rankedFile.recs[2].url

\* C25: main() run over a persisted collection of any size, the empty one and
\* one shorter than TOP_N included, ends normally, having written the ranked
\* report with the first TOP_N records and the ranked collection with all.
C25_PassEndsNormally ==
    (rankRuns > 0 /\ rawFile.st = "ok") =>
        /\ rankExit = "ok"
        /\ csvFile.st = "ok" /\ rankedFile.st = "ok"
        /\ Len(rankedFile.recs) = Len(rawFile.recs)
        /\ Len(csvFile.recs) = Min(TOP_N, Len(rawFile.recs))

(***************************************************************************)
(* SpecMerge: merge_batch_files() over batch files drawn from a bounded    *)
(* pool: absent, unreadable, or a list of records.  scraped_at tells two   *)
(* records with the same url apart.  The urls are non-empty, as the url of *)
(* every record a batch run writes is (scrape_new.py lines 360, 83).       *)
(***************************************************************************)
MaxFileLen == 2

MergePool == {[url |-> u, scraped_at |-> t] : u \in {"u1", "u2", "u3"}, t \in {1, 2}}

InitMerge ==
    /\ batchFiles \in [BatchNumbers ->
          {AbsentFile, CorruptFile}
              \cup {OkFile(recs) : recs \in SeqsUpTo(MergePool, MaxFileLen)}]
    /\ rawFile = AbsentFile /\ rankedFile = AbsentFile /\ csvFile = AbsentFile
    /\ FetchOff /\ ProbeOff /\ MergeOff /\ RankOff /\ RunOff

NextMerge == MergeBatchFiles

SpecMerge == InitMerge /\ [][NextMerge]_vars

\* The lists of the batch files numbered up to n, one after the other in
\* ascending batch number.
RECURSIVE ConcatUpTo(_)
ConcatUpTo(n) ==
    IF n = 0 THEN <<>>
    ELSE ConcatUpTo(n - 1)
         \o (IF n \in BatchNumbers /\ batchFiles[n].st = "ok"
             THEN batchFiles[n].recs ELSE <<>>)

AllInBatchOrder == ConcatUpTo(10)

\* The place of the first record with this url in a list.
FirstIndex(recs, url) ==
    CHOOSE i \in 1..Len(recs) :
        recs[i].url = url /\ \A j \in 1..(i - 1) : recs[j].url # url

\* C4: the merged collection holds no url twice; every (non-empty) url of the
\* batch files is in it, with the record that comes first in the concatenation
\* of the batch files in ascending batch number; and the kept records are in
\* their original order.
C4_FirstOccurrenceWins ==
    mergeSummary.written =>
        LET all == AllInBatchOrder
            out == rawFile.recs
        IN  /\ rawFile.st = "ok"
            /\ NoDupUrls(out)
            /\ {all[i].url : i \in 1..Len(all)} \ {""} = {out[k].url : k \in 1..Len(out)}
            /\ \A k \in 1..Len(out) : out[k] = all[FirstIndex(all, out[k].url)]
            /\ \A k, l \in 1..Len(out) :
                  k < l => FirstIndex(all, out[k].url) < FirstIndex(all, out[l].url)

\* C4 witness: a merge in which the lower-numbered batch file, whose name sorts
\* last as a string, wins a url that the other batch file holds too.
C4_Witness ==
    /\ mergeSummary.written
    /\ batchFiles[2].st = "ok" /\ batchFiles[10].st = "ok"
    /\ \E i \in 1..Len(batchFiles[2].recs), j \in 1..Len(batchFiles[10].recs) :
          /\ batchFiles[2].recs[i].url = batchFiles[10].recs[j].url
          /\ batchFiles[2].recs[i].url # ""
          /\ batchFiles[2].recs[i] # batchFiles[10].recs[j]
          /\ batchFiles[2].recs[i] \in Range(rawFile.recs)
          /\ batchFiles[10].recs[j] \notin Range(rawFile.recs)
    /\ mergeSummary.duplicates_removed > 0

\* The same collection supplied twice: both batch files hold the same list.
MergedWithItself ==
    /\ mergeSummary.written
    /\ batchFiles[2].st = "ok"
    /\ batchFiles[10] = batchFiles[2]

\* C5 (as stated): merging a collection with itself gives a collection of the
\* size of the original, with no url twice.
C5_SameSizeAsOriginal ==
    MergedWithItself =>
        /\ Len(rawFile.recs) = Len(batchFiles[2].recs)
        /\ NoDupUrls(rawFile.recs)

\* C5 (amended): merging a collection with itself gives a collection with no url
\* twice that has one record for each distinct non-empty url of the original;
\* it has the size of the original exactly when the original holds no url twice
\* and no empty url.
C5_SizeIsDistinctUrls ==
    MergedWithItself =>
        LET original == batchFiles[2].recs
            distinct == {original[i].url : i \in 1..Len(original)} \ {""}
        IN  /\ NoDupUrls(rawFile.recs)
            /\ Len(rawFile.recs) = Cardinality(distinct)
            /\ (Len(rawFile.recs) = Len(original))
                  <=> (NoDupUrls(original) /\ \A i \in 1..Len(original) : original[i].url # "")

\* C5 witness: a collection of two records with different urls merged with
\* itself, giving two records.
C5_Witness ==
    /\ MergedWithItself
    /\ Len(batchFiles[2].recs) = 2
    /\ Len(rawFile.recs) = 2
    /\ mergeSummary.duplicates_removed = 2

(***************************************************************************)
(* get_page(url, retries) of scrape_new.py and of explore.py.  One step is *)
(* one pass of the loop "for attempt in range(retries)": the request, the  *)
(* remote's answer and what the code does with it, the sleep included.     *)
(***************************************************************************)
RATE_LIMIT_UNIT == 5
SCRAPE_ERROR_WAIT == 3
EXPLORE_TIMEOUT_UNIT == 3
EXPLORE_ERROR_WAIT == 2

\* What a request can end in: a status code, requests.exceptions.Timeout, or any
\* other exception of requests.get.
Responses == {"200", "429", "404", "500", "Timeout", "Error"}

Continue(wait) == [returns |-> "no", wait |-> wait]
Return(value) == [returns |-> value, wait |-> 0]

\* A bug one could make in line 50: the wait after a 429 does not grow with the
\* attempt number.
rate_limit_wait_flat(response, a, n) ==
    CASE response = "200" -> Return("text")
      [] response = "429" -> Continue(RATE_LIMIT_UNIT)
      [] response \in {"Timeout", "Error"} ->
            Continue(IF a < n - 1 THEN SCRAPE_ERROR_WAIT ELSE 0)
      [] OTHER -> Continue(0)

\* scrape_new.py lines 45-56: 200 returns the text; 429 sleeps (attempt+1)*5;
\* any other status falls through to the next attempt; every exception, a
\* timeout included, sleeps 3 seconds unless this was the last attempt.
ScrapeNewAttempt(response, a, n) ==
    CASE response = "200" -> Return("text")
      [] response = "429" -> Continue((a + 1) * RATE_LIMIT_UNIT)
      [] response \in {"Timeout", "Error"} ->
            Continue(IF a < n - 1 THEN SCRAPE_ERROR_WAIT ELSE 0)
      [] OTHER -> Continue(0)

\* explore.py lines 25-41: 200 returns the text; 404 returns None; any other
\* status falls through; a timeout sleeps (attempt+1)*3; any other exception
\* sleeps 2 seconds unless this was the last attempt.
ExploreAttempt(response, a, n) ==
    CASE response = "200" -> Return("text")
      [] response = "404" -> Return("None")
      [] response = "Timeout" -> Continue((a + 1) * EXPLORE_TIMEOUT_UNIT)
      [] response = "Error" -> Continue(IF a < n - 1 THEN EXPLORE_ERROR_WAIT ELSE 0)
      [] OTHER -> Continue(0)

AttemptOf(f, response, a, n) ==
    IF f = "scrape_new" THEN ScrapeNewAttempt(response, a, n)
    ELSE ExploreAttempt(response, a, n)

\* One pass of the loop.
GetPageAttempt ==
    /\ fetcher # "none" /\ fetchResult = "pending"
    /\ attempt < retries
    /\ \E response \in Responses :
          LET outcome == AttemptOf(fetcher, response, attempt, retries)
          IN  /\ responses' = Append(responses, response)
              /\ waits' = Append(waits, outcome.wait)
              /\ attempt' = attempt + 1
              /\ fetchResult' = IF outcome.returns = "no" THEN "pending"
                                ELSE outcome.returns
    /\ UNCHANGED <<fetcher, retries, probeVars, fileVars, mergeVars, rankVars, runVars>>

\* The loop is over: return None (scrape_new.py line 57, explore.py line 44).
GetPageExhausted ==
    /\ fetcher # "none" /\ fetchResult = "pending"
    /\ attempt = retries
    /\ fetchResult' = "None"
    /\ UNCHANGED <<fetcher, retries, attempt, responses, waits,
                   probeVars, fileVars, mergeVars, rankVars, runVars>>

(***************************************************************************)
(* SpecFetch: one call of get_page, of either module, against a remote     *)
(* that answers each request in any of the ways above.                     *)
(***************************************************************************)
MaxRetries == 3

InitFetch ==
    /\ fetcher \in {"scrape_new", "explore"}
    /\ retries \in 0..MaxRetries
    /\ attempt = 0 /\ responses = <<>> /\ waits = <<>> /\ fetchResult = "pending"
    /\ ProbeOff /\ FilesOff /\ MergeOff /\ RankOff /\ RunOff

NextFetch == GetPageAttempt \/ GetPageExhausted

SpecFetch == InitFetch /\ [][NextFetch]_vars

\* C9: in every fetcher, a 404 answer ends the fetch with failure at once: it is
\* the last request for the URL.
C9_NotFoundIsFinal ==
    \A i \in 1..Len(responses) :
        responses[i] = "404" => (i = Len(responses) /\ fetchResult # "text")

\* The timeouts that were followed by another attempt.
RetriedTimeouts == {i \in 1..(Len(responses) - 1) : responses[i] = "Timeout"}

\* C10: in every fetcher, the timeout of attempt a (0-based; request a+1) is
\* followed by a wait of (a+1) fixed units before the next attempt (the waits
\* are positive and in the proportion of the attempt numbers, whatever the
\* unit), so the waits grow from one timeout to the next; there are at most
\* `retries` attempts, and after `retries` timeouts the fetch returns failure.
C10_TimeoutBackoff ==
    /\ Len(responses) <= retries
    /\ \A i \in RetriedTimeouts : waits[i] > 0
    /\ \A i, j \in RetriedTimeouts :
          i < j => (waits[i] < waits[j] /\ waits[i] * j = waits[j] * i)
    /\ (Len(responses) = retries /\ fetchResult # "pending"
           /\ \A i \in 1..Len(responses) : responses[i] = "Timeout")
          => fetchResult = "None"

\* C11: in get_page of scrape_new.py, the 429 answer to attempt a (0-based;
\* request a+1) is followed by a wait of (a+1) rate-limit units and, while the
\* budget lasts, by the next request; it never ends the fetch by itself, and
\* whatever the answers were there are at most `retries` requests, the fetch
\* returning failure only when all `retries` of them were made.
C11_RateLimitBackoffWithinBudget ==
    fetcher = "scrape_new" =>
        /\ Len(responses) <= retries
        /\ \A i \in 1..Len(responses) :
              responses[i] = "429" =>
                  /\ waits[i] = i * RATE_LIMIT_UNIT
                  /\ i = Len(responses) => fetchResult # "text"
        /\ fetchResult = "None" => Len(responses) = retries
        /\ fetchResult = "pending" => attempt = Len(responses)

\* C11 witness: a fetch of scrape_new.py that spent its whole budget on a
\* timeout, a 429 and another 429, the 429s having waited 10 and 15 seconds.
C11_Witness ==
    /\ fetcher = "scrape_new" /\ retries = 3 /\ fetchResult = "None"
    /\ responses = <<"Timeout", "429", "429">>
    /\ waits = <<SCRAPE_ERROR_WAIT, 2 * RATE_LIMIT_UNIT, 3 * RATE_LIMIT_UNIT>>

\* C26: in every fetcher a call of get_page makes at most `retries` requests,
\* whatever the remote answers; it returns the document on the first 200 and
\* only then, no request following a 200; and the attempt that used up the
\* budget, no request following it, is followed by no wait.
C26_BoundedFetchNoTrailingWait ==
    /\ Len(responses) <= retries
    /\ \A i \in 1..Len(responses) :
          responses[i] = "200" => (i = Len(responses) /\ fetchResult = "text")
    /\ fetchResult = "text" => responses[Len(responses)] = "200"
    /\ (retries > 0 /\ Len(responses) = retries) => waits[retries] = 0

(***************************************************************************)
(* scrape_community_page(url) of scrape_new.py, from the parsed document   *)
(* on: the fields of the record (lines 89-229) and its price (231-341).    *)
(*                                                                         *)
(* Texts.  A string is a sequence of words; "word in text" of Python is    *)
(* the substring test, so a word of the text holds every keyword that is   *)
(* spelled inside it.  An optional value (a key of a JSON object, an       *)
(* element of the page, an attribute) is <<>> when absent and <<v>> when   *)
(* present.                                                                *)
(***************************************************************************)
Some(v) == <<v>>
None == <<>>
Has(o) == o # <<>>
GetOr(o, default) == IF Has(o) THEN o[1] ELSE default

\* community_data.get(key): the value, or None.
HasKey(c, key) == key \in DOMAIN c

\* str.lower() on the words of the model.
LowerWord(w) ==
    CASE w = "Trading" -> "trading"
      [] w = "NFT" -> "nft"
      [] w = "Course" -> "course"
      [] w = "Club" -> "club"
      [] w = "Unknown" -> "unknown"
      [] OTHER -> w

Lower(text) == [i \in 1..Len(text) |-> LowerWord(text[i])]

\* The keywords spelled inside a word: itself and, of the keywords of lines
\* 137-147, those that are its substrings.
SpelledIn(w) ==
    CASE w = "cryptocurrency" -> {"cryptocurrency", "crypto"}
      [] OTHER -> {w}

\* any(word in text for word in words)
AnyWordIn(words, text) == \E i \in 1..Len(text) : SpelledIn(text[i]) \cap words # {}

\* text[:500]: the texts of the model are counted in words.
DESCRIPTION_LIMIT == 500
Truncate(text) == SubSeq(text, 1, Min(Len(text), DESCRIPTION_LIMIT))

TradingWords == {"trading", "forex", "crypto", "bitcoin", "stocks", "investment"}
EcommerceWords == {"ecommerce", "e-commerce", "dropship", "amazon", "shopify"}
RealEstateWords == {"real estate", "property", "realestate"}
FinanceWords == {"finance", "financial", "money", "wealth"}
CryptoWords == {"crypto", "cryptocurrency", "bitcoin", "ethereum", "nft"}
EducationWords == {"education", "course", "learn", "tutorial", "training"}

\* Lines 137-150: the if/elif chain over the lowered description and name.
CategoryOf(combined_text) ==
    IF AnyWordIn(TradingWords, combined_text) THEN "Trading"
    ELSE IF AnyWordIn(EcommerceWords, combined_text) THEN "E-commerce"
    ELSE IF AnyWordIn(RealEstateWords, combined_text) THEN "Real Estate"
    ELSE IF AnyWordIn(FinanceWords, combined_text) THEN "Finance"
    ELSE IF AnyWordIn(CryptoWords, combined_text) THEN "Crypto"
    ELSE IF AnyWordIn(EducationWords, combined_text) THEN "Education"
    ELSE "Other"

\* float(x) and int(x) of lines 119-120: a value of the JSON-LD block is
\* [parses |-> TRUE, value |-> n] when the conversion returns n (a rating in
\* tenths) and [parses |-> FALSE] when it raises.
Number(n) == [parses |-> TRUE, value |-> n]
NotANumber == [parses |-> FALSE]

UnknownName == <<"Unknown">>
EmptyText == <<>>

\* Lines 110-158, on the Product block of the JSON-LD: the keys are set one
\* after the other, and an exception (line 157) leaves those set so far.
FromJsonLd(product_data, c) ==
    LET c1 == SetKey(c, "community_name", GetOr(product_data.name, UnknownName))
        c2 == SetKey(c1, "description", Truncate(GetOr(product_data.description, EmptyText)))
        aggregate_rating == product_data.aggregateRating
        ratingValue == IF Has(aggregate_rating)
                       THEN GetOr(aggregate_rating[1].ratingValue, Number(0))
                       ELSE Number(0)
        reviewCount == IF Has(aggregate_rating)
                       THEN GetOr(aggregate_rating[1].reviewCount, Number(0))
                       ELSE Number(0)
        c3 == SetKey(c2, "average_rating", ratingValue.value)
        c4 == SetKey(c3, "reviews_count", reviewCount.value)
        c5 == SetKey(c4, "creator_name", GetOr(product_data.brand, EmptyText))
        combined_text == Lower(c5.description) \o Lower(c5.community_name)
        c6 == SetKey(c5, "category", CategoryOf(combined_text))
    IN  IF ~ratingValue.parses THEN c2
        ELSE IF ~reviewCount.parses THEN c3
        ELSE c6

\* Lines 160-180: without a rating so far, the text of the page is searched for
\* "X out of 5" and for "N ratings & reviews"; doc.rating_text and
\* doc.reviews_text are the numbers the two patterns capture.
FromHtmlRating(doc, c) ==
    IF HasKey(c, "average_rating") /\ c.average_rating # 0 THEN c
    ELSE LET c1 == IF Has(doc.rating_text)
                   THEN SetKey(c, "average_rating", doc.rating_text[1])
                   ELSE c
         IN  IF Has(doc.reviews_text)
             THEN SetKey(c1, "reviews_count", doc.reviews_text[1])
             ELSE c1

\* title_text.replace(' | Whop', '')
StripSiteSuffix(text) == SelectSeq(text, LAMBDA w : w # "| Whop")

\* Lines 182-215: without a name so far, name and description are taken from
\* the meta tags and the title; an element is [content |-> optional text].
FromMetaTags(doc, c) ==
    IF HasKey(c, "community_name") /\ c.community_name # EmptyText
                                   /\ c.community_name # UnknownName
    THEN c
    ELSE LET name == IF Has(doc.og_title)
                     THEN GetOr(doc.og_title[1].content, UnknownName)
                     ELSE IF Has(doc.title) THEN StripSiteSuffix(doc.title[1])
                     ELSE UnknownName
             description ==
                     IF Has(doc.og_description)
                     THEN Truncate(GetOr(doc.og_description[1].content, EmptyText))
                     ELSE IF Has(doc.meta_description)
                     THEN Truncate(GetOr(doc.meta_description[1].content, EmptyText))
                     ELSE EmptyText
         IN  SetKey(SetKey(c, "community_name", name), "description", description)

\* Lines 217-229: a key that is missing or falsy gets its default.
WithDefaults(c) ==
    LET d1 == IF HasKey(c, "average_rating") /\ c.average_rating # 0 THEN c
              ELSE SetKey(c, "average_rating", 0)
        d2 == IF HasKey(d1, "reviews_count") /\ d1.reviews_count # 0 THEN d1
              ELSE SetKey(d1, "reviews_count", 0)
        d3 == IF HasKey(d2, "creator_name") /\ d2.creator_name # EmptyText THEN d2
              ELSE SetKey(d2, "creator_name", EmptyText)
        d4 == IF HasKey(d3, "category") THEN d3
              ELSE SetKey(d3, "category", "Other")
        d5 == IF HasKey(d4, "community_name") /\ d4.community_name # EmptyText THEN d4
              ELSE SetKey(d4, "community_name", UnknownName)
    IN  IF HasKey(d5, "description") /\ d5.description # EmptyText THEN d5
        ELSE SetKey(d5, "description", EmptyText)

\* Lines 82-229: the fields of the record but the price.
FieldsOf(doc) ==
    LET c0 == [url |-> doc.url]
        c1 == IF Has(doc.product) THEN FromJsonLd(doc.product[1], c0) ELSE c0
    IN  WithDefaults(FromMetaTags(doc, FromHtmlRating(doc, c1)))

(***************************************************************************)
(* The price (lines 231-341).  The page is the sequence of its elements in *)
(* document order, each [tag, text]: "radio" is a div or span whose class  *)
(* matches fui-RadioButtonGroup|radio, "button" and "a" are themselves,    *)
(* "p" is any other visible element, "script" and "style" are not shown.   *)
(* A text is [price, words]: the first "$..." of the text as written ("",  *)
(* when it has none) and the words around it.  Amounts are in cents;       *)
(* price_monthly_usd is in twelve-hundredths of a cent, so that * 4.33 and *)
(* / 12 are exact.                                                         *)
(***************************************************************************)
WEEKS_PER_MONTH_X100 == 433
MONTHS_PER_YEAR == 12
DAYS_PER_MONTH == 30
PriceUnit == 100 * MONTHS_PER_YEAR

\* re.search(r'\$([0-9,]+(?:\.[0-9]{2})?)', text), the commas removed, float():
\* the amount in cents; "$," matches and float('') raises ValueError.
AmountOf(price) ==
    CASE price = "$2.00" -> Number(200)
      [] price = "$10.00" -> Number(1000)
      [] price = "$39.9" -> Number(3900)
      [] price = "$120.00" -> Number(12000)
      [] price = "$500.00" -> Number(50000)
      [] price = "$3,000.00" -> Number(300000)
      [] price = "$0" -> Number(0)
      [] price = "$," -> NotANumber

\* re.compile(r'\$[\d,]+\.?\d*') finds a price in the text.
HasPrice(text) == text.price # ""

\* re.compile(r'\bfree\b|\$0\b|no cost', re.I) finds a free cue in the text.
HasFreeCue(text) == text.price = "$0" \/ text.words \cap {"free", "Free", "no cost"} # {}

\* The billing period of lines 246-260 and 300-313: the first of the patterns
\* one-?time|lifetime, week|weekly, year|yearly|annual, day|daily found in the
\* text ("today" holds "day").
PeriodOf(text) ==
    IF text.words \cap {"one-time", "onetime", "lifetime"} # {} THEN "one-time purchase"
    ELSE IF text.words \cap {"week", "weekly"} # {} THEN "week"
    ELSE IF text.words \cap {"year", "yearly", "annual"} # {} THEN "year"
    ELSE IF text.words \cap {"day", "daily", "today"} # {} THEN "day"
    ELSE "month"

\* price_value converted to a month, in PriceUnit-ths of a cent.
MonthlyPrice(price_value, period) ==
    CASE period = "week" -> price_value * WEEKS_PER_MONTH_X100 * (PriceUnit \div 100)
      [] period = "year" -> price_value * (PriceUnit \div MONTHS_PER_YEAR)
      [] period = "day" -> price_value * DAYS_PER_MONTH * PriceUnit
      [] OTHER -> price_value * PriceUnit

\* f"${price_value:.2f} / {period}", "Free" and "Unknown".
Display(price_value, period) == [shows |-> "amount", amount |-> price_value, period |-> period]
DisplayFree == [shows |-> "Free"]
DisplayUnknown == [shows |-> "Unknown"]

\* The price keys of community_data, with what the code logs of them: where the
\* price was found and in which text.
Priced(price_value, period, found_in, text) ==
    [price_monthly_usd |-> MonthlyPrice(price_value, period),
     price_display |-> Display(price_value, period),
     is_free |-> FALSE, found_in |-> found_in, text |-> text]

\* A bug one could make in lines 332-335: no price found is recorded as free.
unknown_marked_free(found_in) ==
    [price_monthly_usd |-> 0, price_display |-> DisplayUnknown, is_free |-> TRUE,
     found_in |-> found_in]

\* Lines 332-335, and 339-341 after an exception.
PriceUnknown(found_in) ==
    [price_monthly_usd |-> 0, price_display |-> DisplayUnknown, is_free |-> FALSE,
     found_in |-> found_in]

\* Lines 325-328.
PriceFree ==
    [price_monthly_usd |-> 0, price_display |-> DisplayFree, is_free |-> TRUE,
     found_in |-> "free pricing indicator"]

\* The first of a set of elements in document order.
FirstOf(among) == CHOOSE i \in among : \A j \in among : i <= j

\* Lines 232-341.  Method 1: the first radio element with a price, its period
\* read from its text; method 2: the first button or link with a price, always
\* taken as monthly; method 3: the first text with a price whose parent is no
\* script or style, its period read from the text; method 4: any text of the
\* page with a free cue; else unknown.  float() raising in methods 1-3 ends in
\* the except of line 337.
PriceOf(elements) ==
    LET all == 1..Len(elements)
        radio_buttons == {i \in all : elements[i].tag = "radio" /\ HasPrice(elements[i].text)}
        buttons == {i \in all : elements[i].tag \in {"button", "a"}
                                  /\ HasPrice(elements[i].text)}
        price_elements == {i \in all : elements[i].tag \notin {"script", "style"}
                                         /\ HasPrice(elements[i].text)}
        free_indicators == {i \in all : HasFreeCue(elements[i].text)}
        From(i, reads_period, found_in) ==
            LET text == elements[i].text
                price_value == AmountOf(text.price)
            IN  IF ~price_value.parses THEN PriceUnknown("error")
                ELSE Priced(price_value.value,
                            IF reads_period THEN PeriodOf(text) ELSE "month",
                            found_in, text)
    IN  IF radio_buttons # {} THEN From(FirstOf(radio_buttons), TRUE, "radio button")
        ELSE IF buttons # {} THEN From(FirstOf(buttons), FALSE, "button")
        ELSE IF price_elements # {} THEN From(FirstOf(price_elements), TRUE, "text")
        ELSE IF free_indicators # {} THEN PriceFree
        ELSE PriceUnknown("none")

\* scrape_community_page from the parsed document on: the record it returns
\* and what it logged of the price.
ScrapeCommunityPage(doc) ==
    LET price == PriceOf(doc.elements)
        priced == SetKey(SetKey(SetKey(FieldsOf(doc),
                      "price_monthly_usd", price.price_monthly_usd),
                      "price_display", price.price_display),
                      "is_free", price.is_free)
    IN  [applied |-> "scrape_community_page", community_data |-> priced, price_log |-> price]

(***************************************************************************)
(* SpecExtract: scrape_community_page applied to documents drawn from      *)
(* bounded sets: documents that differ in what the fields are read from,   *)
(* with no priced element, and documents that differ in their elements.    *)
(***************************************************************************)
MaxElements == 2

Product(name, description, aggregateRating, brand) ==
    [name |-> name, description |-> description,
     aggregateRating |-> aggregateRating, brand |-> brand]

AggregateRating(ratingValue, reviewCount) ==
    [ratingValue |-> ratingValue, reviewCount |-> reviewCount]

MetaTag(content) == [content |-> content]

Document(product, rating_text, reviews_text, og_title, title, og_description, meta_description, elements) ==
    [url |-> "u1", product |-> product, rating_text |-> rating_text,
     reviews_text |-> reviews_text, og_title |-> og_title, title |-> title,
     og_description |-> og_description, meta_description |-> meta_description,
     elements |-> elements]

Element(tag, price, words) == [tag |-> tag, text |-> [price |-> price, words |-> words]]

ProductPool ==
    {None} \cup
    {Some(Product(name, description, aggregateRating, brand)) :
        name \in {None, Some(EmptyText), Some(<<"Trading", "Club">>), Some(<<"NFT", "Club">>)},
        description \in {None, Some(<<"cryptocurrency", "Course">>), Some(<<"shopify">>)},
        aggregateRating \in
            {None,
             Some(AggregateRating(Some(Number(45)), Some(Number(12)))),
             Some(AggregateRating(Some(Number(45)), None)),
             Some(AggregateRating(None, Some(Number(12)))),
             Some(AggregateRating(Some(Number(75)), Some(Number(-3)))),
             Some(AggregateRating(Some(NotANumber), Some(Number(12)))),
             Some(AggregateRating(None, Some(NotANumber)))},
        brand \in {None, Some(<<"Acme">>)}}

FieldDocuments ==
    {Document(product, rating_text, reviews_text, og_title, title, og_description,
              meta_description, <<>>) :
        product \in ProductPool,
        rating_text \in {None, Some(48), Some(90)},
        reviews_text \in {None, Some(128)},
        og_title \in {None, Some(MetaTag(None)), Some(MetaTag(Some(<<"Trading", "NFT">>)))},
        title \in {None, Some(<<"Course", "| Whop">>)},
        og_description \in {None, Some(MetaTag(Some(<<"wealth">>)))},
        meta_description \in {None, Some(MetaTag(Some(<<"property">>)))}}

ElementPool ==
    {Element("radio", "$500.00", {"one-time"}),
     Element("radio", "$10.00", {"weekly"}),
     Element("radio", "", {"plan"}),
     Element("button", "$120.00", {"year"}),
     Element("a", "$10.00", {"Join"}),
     Element("button", "", {"Join"}),
     Element("p", "$120.00", {"annual"}),
     Element("p", "$2.00", {"daily"}),
     Element("p", "$10.00", {}),
     Element("p", "$39.9", {"lifetime"}),
     Element("p", "$0", {}),
     Element("p", "$,", {}),
     Element("p", "", {"Free"}),
     Element("p", "", {"Welcome"}),
     Element("script", "$10.00", {}),
     Element("script", "", {"free"}),
     Element("style", "", {"no cost"})}

PriceDocuments ==
    {Document(Some(Product(Some(<<"Trading", "Club">>), None, None, None)),
              None, None, None, None, None, None, elements) :
        elements \in SeqsUpTo(ElementPool, MaxElements)}

InitExtract ==
    /\ probe \in {[kind |-> "document", doc |-> doc] :
                     doc \in FieldDocuments \cup PriceDocuments}
    /\ probeOut = NoOut
    /\ FetchOff /\ FilesOff /\ MergeOff /\ RankOff /\ RunOff

ApplyScrape ==
    /\ probe.kind = "document" /\ probeOut.applied = "none"
    /\ probeOut' = ScrapeCommunityPage(probe.doc)
    /\ UNCHANGED <<probe, fetchVars, fileVars, mergeVars, rankVars, runVars>>

NextExtract == ApplyScrape

SpecExtract == InitExtract /\ [][NextExtract]_vars

Scraped == probeOut.applied = "scrape_community_page"

\* The elements of a page that are shown.
Visible(elements) == SelectSeq(elements, LAMBDA e : e.tag \notin {"script", "style"})

\* The three price keys of a record.
PriceKeys(c) == <<c.price_monthly_usd, c.price_display, c.is_free>>

\* The strategy that is first, in the order selection control, call to
\* action, visible text, free cue, none, to match the page.
FirstMatching(elements) ==
    LET Some_(P(_)) == \E i \in 1..Len(elements) : P(elements[i])
        IsRadio(e) == e.tag = "radio" /\ HasPrice(e.text)
        IsCta(e) == e.tag \in {"button", "a"} /\ HasPrice(e.text)
        IsText(e) == e.tag \notin {"script", "style"} /\ HasPrice(e.text)
        IsFree(e) == HasFreeCue(e.text)
    IN  IF Some_(IsRadio) THEN "radio button"
        ELSE IF Some_(IsCta) THEN "button"
        ELSE IF Some_(IsText) THEN "text"
        ELSE IF Some_(IsFree) THEN "free pricing indicator"
        ELSE "none"

\* C16: the price keys of a record are set by the first strategy, in the order
\* selection control, call to action, visible text, free cue, none, that
\* matches the page (or, that strategy failing on its amount, by the handler
\* of the failure), and what stands in the script and style elements of the
\* page has no part in them: the page without those elements gives the same
\* price keys.
C16_FirstMatchingStrategyDecides ==
    Scraped =>
        /\ probeOut.price_log.found_in \in {FirstMatching(probe.doc.elements), "error"}
        /\ PriceKeys(probeOut.community_data)
              = PriceKeys(PriceOf(Visible(probe.doc.elements)))

\* C17: is_free is true exactly when the free cue decided the price, and the
\* price is then 0; a record with a dollar amount has is_free false; and a
\* page with neither a price in its visible text nor a free cue gives price 0,
\* price_display "Unknown" and is_free false.
C17_FreeOnlyByFreeCue ==
    Scraped =>
        LET c == probeOut.community_data
            found_in == probeOut.price_log.found_in
        IN  /\ c.is_free <=> found_in = "free pricing indicator"
            /\ c.is_free => (c.price_monthly_usd = 0 /\ c.price_display = DisplayFree)
            /\ c.price_display.shows = "amount" =>
                  (~c.is_free /\ found_in \in {"radio button", "button", "text"})
            /\ FirstMatching(probe.doc.elements) = "none" =>
                  /\ c.price_monthly_usd = 0
                  /\ c.price_display = DisplayUnknown
                  /\ ~c.is_free

\* C17 witness: the record of a page whose only dollar amount stands in a
\* script and that shows the word "Free": the free cue decided, is_free is
\* true and the price is 0.
C17_Witness ==
    /\ Scraped
    /\ probe.doc.elements = <<Element("script", "$10.00", {}), Element("p", "", {"Free"})>>
    /\ probeOut.price_log.found_in = "free pricing indicator"
    /\ probeOut.community_data.is_free
    /\ probeOut.community_data.price_monthly_usd = 0

\* What does hold of the defaults (lines 217-229): every record has all its
\* keys, and a page with no Product block, no rating or reviews text and no
\* meta tags or title gives "Unknown", no description, no creator, rating 0.0,
\* 0 reviews and Other.
RecordHasDefaults ==
    Scraped =>
        LET c == probeOut.community_data
            doc == probe.doc
        IN  /\ {"community_name", "description", "creator_name", "average_rating",
                "reviews_count", "category", "price_monthly_usd", "price_display",
                "is_free"} \subseteq DOMAIN c
            /\ (~Has(doc.product) /\ ~Has(doc.og_title) /\ ~Has(doc.title))
                  => (c.community_name = UnknownName /\ c.creator_name = EmptyText
                      /\ c.category = "Other")
            /\ (~Has(doc.product) /\ ~Has(doc.og_description) /\ ~Has(doc.meta_description))
                  => c.description = EmptyText
            /\ (~Has(doc.product) /\ ~Has(doc.rating_text)) => c.average_rating = 0
            /\ (~Has(doc.product) /\ ~Has(doc.reviews_text)) => c.reviews_count = 0

Taxonomy == {"Trading", "E-commerce", "Real Estate", "Finance", "Crypto", "Education", "Other"}

\* C18: the category of a record is a value of the taxonomy, and it is the
\* first of Trading, E-commerce, Real Estate, Finance, Crypto, Education with a
\* keyword in the lowered description and name of the record as returned, or
\* Other; with both "trading" and "nft" in them it is Trading.
C18_CategoryOfFinalText ==
    Scraped =>
        LET c == probeOut.community_data
            combined_text == Lower(c.description) \o Lower(c.community_name)
        IN  /\ c.category \in Taxonomy
            /\ c.category = CategoryOf(combined_text)
            /\ ({"trading", "nft"} \subseteq Range(combined_text)) => c.category = "Trading"

\* C19: every record has a rating between 0.0 and 5.0 (0 and 50 tenths) and a
\* reviews count that is not negative, whatever the JSON-LD block and the text
\* of the page held.
C19_RatingAndReviewsInRange ==
    Scraped =>
        /\ probeOut.community_data.average_rating >= 0
        /\ probeOut.community_data.average_rating <= 50
        /\ probeOut.community_data.reviews_count >= 0

\* C20: whichever of the three strategies found the dollar amount, the monthly
\* price is the amount converted by the billing period that the text it was
\* found in names: kept for one-time and lifetime, times 4.33 for a week,
\* divided by 12 for a year, times 30 for a day, kept when no period is named.
C20_PeriodOfMatchedTextConverts ==
    (Scraped /\ probeOut.price_log.found_in \in {"radio button", "button", "text"}) =>
        probeOut.community_data.price_monthly_usd
            = MonthlyPrice(AmountOf(probeOut.price_log.text.price).value,
                           PeriodOf(probeOut.price_log.text))

\* The first text of a chain that is not empty, or the default.
FirstNonEmpty(candidates, default) ==
    LET filled == {i \in 1..Len(candidates) : candidates[i] # EmptyText}
    IN  IF filled = {} THEN default
        ELSE candidates[CHOOSE i \in filled : \A j \in filled : i <= j]

\* What a page offers for a field, strategy by strategy; nothing is the empty
\* text.
StructuredName(doc) == IF Has(doc.product) THEN GetOr(doc.product[1].name, EmptyText) ELSE EmptyText
StructuredDescription(doc) ==
    IF Has(doc.product) THEN GetOr(doc.product[1].description, EmptyText) ELSE EmptyText
TagContent(tag) == IF Has(tag) THEN GetOr(tag[1].content, EmptyText) ELSE EmptyText
TitleText(doc) == IF Has(doc.title) THEN StripSiteSuffix(doc.title[1]) ELSE EmptyText

\* C21: the name of a record is the first non-empty of the structured name,
\* the page-level title tag and the document title, else "Unknown"; its
\* description is the first non-empty of the structured description, the
\* page-level description tag and the generic description tag, else empty;
\* each chain on its own, whatever the other field was read from.
C21_NameAndDescriptionChains ==
    Scraped =>
        /\ probeOut.community_data.community_name
              = FirstNonEmpty(<<StructuredName(probe.doc), TagContent(probe.doc.og_title),
                                TitleText(probe.doc)>>, UnknownName)
        /\ probeOut.community_data.description
              = FirstNonEmpty(<<Truncate(StructuredDescription(probe.doc)),
                                Truncate(TagContent(probe.doc.og_description)),
                                Truncate(TagContent(probe.doc.meta_description))>>, EmptyText)

\* The page without its candidates that do not convert: the keys of the
\* aggregate-rating block that float() or int() rejects are left out, and an
\* amount float() rejects is no price.
WithoutUnparsed(doc) ==
    LET Parsed(o) == IF Has(o) /\ ~o[1].parses THEN None ELSE o
        Block(b) == AggregateRating(Parsed(b.ratingValue), Parsed(b.reviewCount))
        Shown(e) == IF HasPrice(e.text) /\ ~AmountOf(e.text.price).parses
                    THEN [e EXCEPT !.text.price = ""]
                    ELSE e
        product == IF Has(doc.product) /\ Has(doc.product[1].aggregateRating)
                   THEN Some([doc.product[1] EXCEPT !.aggregateRating =
                                 Some(Block(doc.product[1].aggregateRating[1]))])
                   ELSE doc.product
    IN  [doc EXCEPT !.product = product,
                    !.elements = [i \in 1..Len(doc.elements) |-> Shown(doc.elements[i])]]

\* The number the aggregate-rating block gives for a key: 0 when the block or
\* the key is missing or the value does not convert.
StructuredNumber(doc, key) ==
    IF Has(doc.product) /\ Has(doc.product[1].aggregateRating)
          /\ Has(doc.product[1].aggregateRating[1][key])
          /\ doc.product[1].aggregateRating[1][key][1].parses
    THEN doc.product[1].aggregateRating[1][key][1].value
    ELSE 0

\* C22: the rating of a record is the one of the aggregate-rating block when
\* the block gave one, else the one of the text "X out of 5" when the page
\* has it; the reviews count is the one of the block when the block gave one,
\* else the one of the text "N ratings & reviews"; each without regard to the
\* other.  (Pages with a value that does not convert are left to C23.)
C22_RatingAndReviewsFallBackApart ==
    (Scraped /\ probe.doc = WithoutUnparsed(probe.doc)) =>
        /\ probeOut.community_data.average_rating
              = IF StructuredNumber(probe.doc, "ratingValue") # 0
                THEN StructuredNumber(probe.doc, "ratingValue")
                ELSE GetOr(probe.doc.rating_text, 0)
        /\ probeOut.community_data.reviews_count
              = IF StructuredNumber(probe.doc, "reviewCount") # 0
                THEN StructuredNumber(probe.doc, "reviewCount")
                ELSE GetOr(probe.doc.reviews_text, 0)

\* C23: a candidate that does not convert to the type of its field counts as
\* no candidate: the record of the page is the record of the same page
\* without that candidate, in the field itself, whose chain goes on, and in
\* name, description, creator, category and price.
C23_UnparsedCandidateIsNoCandidate ==
    Scraped => probeOut.community_data = ScrapeCommunityPage(WithoutUnparsed(probe.doc)).community_data

(***************************************************************************)
(* scrape_new.py: a batch run, read_and_process_urls_batch(batch_number).  *)
(* The process can be killed at any point; writing the batch file is       *)
(* open(output_file, "w"), which empties the file, followed by json.dump,  *)
(* so between the two the file on disk is no JSON.                         *)
(***************************************************************************)
\* batch_size of line 431 is 15; the model flushes at a smaller size.
BatchSize == 2
MaxRuns == 2

\* The product sitemap URLs of a batch: its slice of sample_discovery.txt
\* (batch_size_urls of line 417 is 10000; the model's batches are short).
BatchUrls(n) == IF n = 2 THEN <<"s1", "s2", "s3">> ELSE <<"s4", "s5">>

\* The community URL found in a product sitemap (lines 355-362): each product
\* sitemap of the model names a community of its own.
CommunityUrl(sitemap_url) ==
    CASE sitemap_url = "s1" -> "u1"
      [] sitemap_url = "s2" -> "u2"
      [] sitemap_url = "s3" -> "u3"
      [] sitemap_url = "s4" -> "u4"
      [] sitemap_url = "s5" -> "u5"

\* The record scrape_community_page returns for a community page fetched in run
\* number t; the fields rank.py reads are those of the page.
ScrapedRecord(url, t) ==
    [url |-> url, scraped_at |-> t, community_name |-> "Community",
     reviews_count |-> IF url \in {"u3", "u5"} THEN 0 ELSE 100,
     average_rating |-> IF url \in {"u3", "u5"} THEN 0 ELSE 49,
     price_monthly_usd |-> IF url \in {"u1", "u4"} THEN 20 ELSE 0,
     category |-> IF url \in {"u3", "u5"} THEN "Other" ELSE "Trading"]

\* The record scrape_community_page returns for a page it found no name in:
\* community_name holds the default of lines 199 and 227.
UnnamedRecord(url, t) == [ScrapedRecord(url, t) EXCEPT !.community_name = "Unknown"]

\* What the run does on the network: get_page(url), with its retries, and
\* time.sleep(DELAY_BETWEEN_REQUESTS) of line 391.
Fetch(url) == [op |-> "fetch", url |-> url]
Delay == [op |-> "delay", url |-> "none"]

\* What process_sitemap_and_scrape does on the network up to the point where
\* it returns or writes the file: the sitemap is fetched (line 349); the
\* returns of lines 352 and 366 and the except of line 393 leave at once; the
\* community page is fetched right after the sitemap (line 371, get_page of
\* line 61); line 391 sleeps when the page was fetched or the fetch failed,
\* after the file was written when the batch was full.
NetworkSteps(outcome, sitemap_url, community_url, writes) ==
    IF outcome \in {"sitemap_failed", "no_community_url", "exception"}
    THEN <<Fetch(sitemap_url)>>
    ELSE <<Fetch(sitemap_url), Fetch(community_url)>>
            \o (IF writes THEN <<>> ELSE <<Delay>>)

\* How the processing of one sitemap URL can go (process_sitemap_and_scrape):
\* get_page returns None for the sitemap (line 350); the sitemap names no
\* community URL (line 364); get_page returns None for the community page
\* (lines 61-63, 372); the page is fetched and its record has the name
\* "Unknown" (line 372) or a name found in the page; an exception is caught
\* (line 393).
Outcomes == {"sitemap_failed", "no_community_url", "scrape_failed", "unnamed",
             "exception", "scraped"}

\* Line 372: the record is kept when its name is not "Unknown".
KeepsRecord(community_data) == community_data.community_name # "Unknown"

\* A bug one could make in lines 433-441: the existing file is not read.
load_nothing(file) == <<>>

\* Lines 433-441: the list in the existing batch file; [] when there is no file
\* or json.load raises.
LoadExisting(file) == IF file.st = "ok" THEN file.recs ELSE <<>>

\* read_and_process_urls_batch up to the loop (lines 398-444).
StartRun ==
    /\ runPc \in {"stopped", "done"}
    /\ runs < MaxRuns
    /\ \E n \in BatchNumbers :
          /\ batch_number' = n
          /\ all_communities' = LoadExisting(batchFiles[n])
          /\ fileAtStart' = ListIn(batchFiles[n])
          /\ stateAtStart' = batchFiles[n].st
    /\ communities_batch' = <<>>
    /\ urlIdx' = 0
    /\ runs' = runs + 1
    /\ runPc' = "running"
    /\ failed_urls' = <<>> /\ extracted' = <<>> /\ fetch_log' = <<>>
    /\ write_failed' = FALSE /\ completion_log' = NoLog
    /\ UNCHANGED <<lastFlushed, fetchVars, probeVars, fileVars, mergeVars, rankVars>>

\* process_sitemap_and_scrape for the next sitemap URL (lines 345-396), up to
\* the open() of line 380 when the batch has reached batch_size.
ProcessUrl ==
    /\ runPc = "running"
    /\ urlIdx < Len(BatchUrls(batch_number))
    /\ \E outcome \in Outcomes :
          LET sitemap_url == BatchUrls(batch_number)[urlIdx + 1]
              community_url == CommunityUrl(sitemap_url)
              community_data == IF outcome = "unnamed"
                                THEN UnnamedRecord(community_url, runs)
                                ELSE ScrapedRecord(community_url, runs)
              batch == Append(communities_batch, community_data)
              keeps == outcome \in {"scraped", "unnamed"} /\ KeepsRecord(community_data)
              writes == keeps /\ Len(batch) >= BatchSize
          IN  /\ fetch_log' = fetch_log \o NetworkSteps(outcome, sitemap_url,
                                                        community_url, writes)
              /\ failed_urls' =
                    CASE outcome = "sitemap_failed" -> Append(failed_urls, sitemap_url)
                      [] outcome = "scrape_failed" -> Append(failed_urls, community_url)
                      [] OTHER -> failed_urls
              /\ extracted' = IF outcome \in {"scraped", "unnamed"}
                              THEN Append(extracted, community_data)
                              ELSE extracted
              /\ IF keeps
                 THEN IF writes
                      THEN /\ communities_batch' = batch
                           /\ all_communities' = all_communities \o batch
                           /\ batchFiles' = [batchFiles EXCEPT ![batch_number] = PartialFile]
                           /\ runPc' = "flushing"
                           /\ UNCHANGED urlIdx
                      ELSE /\ communities_batch' = batch
                           /\ urlIdx' = urlIdx + 1
                           /\ UNCHANGED <<all_communities, batchFiles, runPc>>
                 ELSE /\ urlIdx' = urlIdx + 1
                      /\ UNCHANGED <<all_communities, communities_batch, batchFiles, runPc>>
    /\ UNCHANGED <<batch_number, runs, fileAtStart, stateAtStart, lastFlushed,
                   write_failed, completion_log, rawFile, rankedFile, csvFile, fetchVars,
                   probeVars, mergeVars, rankVars>>

\* The rest of the flush (lines 381-391): json.dump writes all_communities, the
\* file is closed, the batch is cleared, and the URL is done.
FlushComplete ==
    /\ runPc = "flushing"
    /\ batchFiles' = [batchFiles EXCEPT ![batch_number] = OkFile(all_communities)]
    /\ lastFlushed' = [lastFlushed EXCEPT ![batch_number] = all_communities]
    /\ communities_batch' = <<>>
    /\ fetch_log' = Append(fetch_log, Delay)
    /\ urlIdx' = urlIdx + 1
    /\ runPc' = "running"
    /\ UNCHANGED <<batch_number, all_communities, runs, fileAtStart, stateAtStart,
                   failed_urls, extracted, write_failed, completion_log, rawFile,
                   rankedFile, csvFile, fetchVars, probeVars, mergeVars, rankVars>>

\* The write of lines 380-381 raises (OSError: the disk is full, the file cannot
\* be written): the except of line 393 logs it and the function returns the
\* batch as it is.  Line 378 has already put the batch into all_communities,
\* lines 384 and 391 are not reached, and the file stays as the write left it.
FlushFails ==
    /\ runPc = "flushing"
    /\ write_failed' = TRUE
    /\ urlIdx' = urlIdx + 1
    /\ runPc' = "running"
    /\ UNCHANGED <<batch_number, all_communities, communities_batch, runs, fileAtStart,
                   stateAtStart, lastFlushed, failed_urls, extracted, fetch_log,
                   completion_log, fileVars, fetchVars, probeVars, mergeVars, rankVars>>

\* Line 463: what the run logs when it returns, the only report of its end.
CompletionLog(n, communities) ==
    [logged |-> TRUE, batch_number |-> n, total_scraped |-> Len(communities)]

\* After the loop (lines 456-464): the remaining batch is written, up to the
\* open() of line 459; with nothing left the run logs its end and returns.
FinishRun ==
    /\ runPc = "running"
    /\ urlIdx = Len(BatchUrls(batch_number))
    /\ IF communities_batch # <<>>
       THEN /\ all_communities' = all_communities \o communities_batch
            /\ batchFiles' = [batchFiles EXCEPT ![batch_number] = PartialFile]
            /\ runPc' = "final_flush"
            /\ UNCHANGED completion_log
       ELSE /\ runPc' = "done"
            /\ completion_log' = CompletionLog(batch_number, all_communities)
            /\ UNCHANGED <<all_communities, batchFiles>>
    /\ UNCHANGED <<batch_number, urlIdx, communities_batch, runs, fileAtStart,
                   stateAtStart, lastFlushed, failed_urls, extracted, fetch_log, write_failed, rawFile,
                   rankedFile, csvFile, fetchVars, probeVars, mergeVars, rankVars>>

\* json.dump of line 460, the log of line 463 and the return.
FinalFlushComplete ==
    /\ runPc = "final_flush"
    /\ batchFiles' = [batchFiles EXCEPT ![batch_number] = OkFile(all_communities)]
    /\ lastFlushed' = [lastFlushed EXCEPT ![batch_number] = all_communities]
    /\ runPc' = "done"
    /\ completion_log' = CompletionLog(batch_number, all_communities)
    /\ UNCHANGED <<batch_number, urlIdx, all_communities, communities_batch, runs,
                   fileAtStart, stateAtStart, failed_urls, extracted, fetch_log, write_failed, rawFile,
                   rankedFile, csvFile, fetchVars, probeVars, mergeVars, rankVars>>

\* The process is killed: what it held in memory is gone, the files stay as
\* they are on disk.
Crash ==
    /\ runPc \in {"running", "flushing", "final_flush"}
    /\ runPc' = "stopped"
    /\ all_communities' = <<>>
    /\ communities_batch' = <<>>
    /\ urlIdx' = 0
    /\ failed_urls' = <<>> /\ extracted' = <<>> /\ fetch_log' = <<>>
    /\ write_failed' = FALSE
    /\ UNCHANGED <<batch_number, runs, fileAtStart, stateAtStart, lastFlushed, completion_log,
                   fetchVars, probeVars, fileVars, mergeVars, rankVars>>

(***************************************************************************)
(* Spec: batch runs of scrape_new.py, with crashes and restarts, and       *)
(* merge_batches.py and rank.py run over what is on disk.                  *)
(***************************************************************************)
Init == FetchOff /\ ProbeOff /\ FilesOff /\ MergeOff /\ RankOff /\ RunOff

Next ==
    \/ StartRun
    \/ ProcessUrl
    \/ FlushComplete
    \/ FlushFails
    \/ FinishRun
    \/ FinalFlushComplete
    \/ Crash
    \/ MergeBatchFiles
    \/ RankMain

Spec == Init /\ [][Next]_vars

\* C7: when the process has crashed, at whatever point of the run, every batch
\* file is a complete well-formed snapshot and holds every record it held after
\* its last completed flush; only buffered records are lost.
C7_CrashLeavesLastSnapshot ==
    runPc = "stopped" =>
        \A n \in BatchNumbers :
            /\ batchFiles[n].st \in {"absent", "ok"}
            /\ IsPrefix(lastFlushed[n], batchFiles[n].recs)

\* C8: a restarted run loads the records of the existing batch file before it
\* processes any URL, and after every later flush the file holds them all, ahead
\* of the records of this run; and the collections the ranked report is built
\* from and made of never hold a url twice, the de-duplication of the merge
\* coming before the report.
C8_ResumeKeepsLoadedAndReportIsUnique ==
    /\ (runPc = "running" /\ urlIdx = 0 /\ communities_batch = <<>>)
          => all_communities = fileAtStart
    /\ runPc \in {"running", "flushing", "final_flush", "done"}
          => IsPrefix(fileAtStart, all_communities)
    /\ (runPc \in {"running", "done"} /\ batchFiles[batch_number].st = "ok")
          => LET recs == batchFiles[batch_number].recs
             IN  /\ IsPrefix(fileAtStart, recs)
                 /\ \A i \in (Len(fileAtStart) + 1)..Len(recs) : recs[i].scraped_at = runs
                 /\ \A i \in 1..Len(fileAtStart) : recs[i].scraped_at < runs
    /\ rawFile.st = "ok" => NoDupUrls(rawFile.recs)
    /\ rankedFile.st = "ok" => NoDupUrls(rankedFile.recs)
    /\ csvFile.st = "ok" => NoDupUrls(csvFile.recs)

\* C8 witness: a second run over a batch file that held records has flushed the
\* same urls again behind them, the merge has removed the duplicates and the
\* ranked report has been written from the merged collection.
C8_Witness ==
    /\ runs = 2 /\ runPc = "done"
    /\ fileAtStart # <<>>
    /\ Len(batchFiles[batch_number].recs) > Len(fileAtStart)
    /\ ~NoDupUrls(batchFiles[batch_number].recs)
    /\ mergeSummary.written /\ mergeSummary.duplicates_removed > 0
    /\ rankExit = "ok"
    /\ rankedFile.st = "ok"
    /\ Len(rankedFile.recs) = Len(rawFile.recs)
    /\ Len(rawFile.recs) < Len(batchFiles[batch_number].recs)

\* The records of this run that line 372 kept.
KeptRecords == SelectSeq(extracted, KeepsRecord)

\* What does hold at the end of a run: every URL of the batch was processed,
\* and when the run kept a record and its writes went through the batch file is
\* the loaded records followed by the kept ones.
RunEndsWithKeptRecords ==
    runPc = "done" =>
        /\ urlIdx = Len(BatchUrls(batch_number))
        /\ (KeptRecords # <<>> /\ ~write_failed) =>
              batchFiles[batch_number] = OkFile(fileAtStart \o KeptRecords)
        /\ KeptRecords = <<>> => batchFiles[batch_number].st = stateAtStart

\* C12: a URL whose fetch failed terminally does not end the run: while the run
\* is going its next step is possible, and a run that had such failures and has
\* returned has processed every URL of the batch and left in the batch file
\* every record extracted in it, the ones buffered at the end included.
C12_FailedFetchNeverFatal ==
    /\ runPc = "running" => ENABLED (ProcessUrl \/ FinishRun)
    /\ (runPc = "done" /\ failed_urls # <<>>) =>
          /\ urlIdx = Len(BatchUrls(batch_number))
          /\ \A i \in 1..Len(extracted) :
                /\ batchFiles[batch_number].st = "ok"
                /\ extracted[i] \in Range(batchFiles[batch_number].recs)

\* The failures a completion log reports: it has no field for them.
ReportedFailures(log) == IF "failed_urls" \in DOMAIN log THEN log.failed_urls ELSE <<>>
ReportedFailureCount(log) == IF "failed_count" \in DOMAIN log THEN log.failed_count ELSE 0

\* C13: when the run has returned, its report names the URLs whose fetch failed
\* terminally in the run, all of them and no other, with their count.
C13_FailuresReportedAtEnd ==
    runPc = "done" =>
        /\ completion_log.logged
        /\ ReportedFailures(completion_log) = failed_urls
        /\ ReportedFailureCount(completion_log) = Len(failed_urls)

\* C14: a run that found the batch file unreadable starts from nothing, and
\* when it has returned it has processed every URL of the batch and the batch
\* file holds exactly the records extracted in the run.
C14_UnreadableFileMeansFreshRun ==
    stateAtStart \in {"partial", "corrupt"} =>
        /\ fileAtStart = <<>>
        /\ (runPc = "running" /\ urlIdx = 0) => all_communities = <<>>
        /\ runPc = "done" =>
              /\ urlIdx = Len(BatchUrls(batch_number))
              /\ batchFiles[batch_number] = OkFile(extracted)

\* C15: when the run has returned, every document it fetched has its record in
\* the batch file, the record of a document without a name, which holds the
\* default "Unknown", as well.
C15_EveryFetchedDocumentPersisted ==
    runPc = "done" =>
        \A i \in 1..Len(extracted) :
            /\ extracted[i].community_name \in {"Community", "Unknown"}
            /\ batchFiles[batch_number].st = "ok"
            /\ \E j \in 1..Len(batchFiles[batch_number].recs) :
                  batchFiles[batch_number].recs[j] = extracted[i]

\* C24: in a batch run the fetches come one after another, and between two
\* successive fetches to different URLs (sitemap, community page, next
\* sitemap) the politeness delay elapses, whichever way the URL went.
C24_DelayBetweenFetches ==
    \A i \in 1..(Len(fetch_log) - 1) :
        (fetch_log[i].op = "fetch" /\ fetch_log[i + 1].op = "fetch")
            => fetch_log[i].url = fetch_log[i + 1].url

\* C27: after every URL step of a batch run the buffer holds fewer than
\* batch_size records, and the records of the batch file followed by the
\* buffered ones are the records loaded at the start followed by the records
\* accepted so far in the run (line 372), in the order of acceptance, each once;
\* when the run has returned the file holds them all.
C27_FileAndBufferHoldAccepted ==
    /\ runPc = "running" =>
          /\ Len(communities_batch) < BatchSize
          /\ ListIn(batchFiles[batch_number]) \o communities_batch
                = fileAtStart \o KeptRecords
    /\ runPc = "done" =>
          ListIn(batchFiles[batch_number]) = fileAtStart \o KeptRecords

====
